---- MODULE Spec2Model ----
(***************************************************************************)
(* Conversation orchestration engine of the customer-success backend:      *)
(* state store, step guard, pipeline graph, escalation policy,             *)
(* confirmation gate and turn router (src/backend/app).                    *)
(*                                                                         *)
(* Conventions of the model                                                *)
(*  - A Python dict with optional keys is a record with every key; a       *)
(*    missing key and the value None are both NONE (both are falsy and     *)
(*    both are what dict.get returns).                                     *)
(*  - A user message is the tuple of the features the code reads from it:  *)
(*    what run_triage returns for it (intent, order id), whether it holds  *)
(*    an affirmation token, whether it is the empty string.                *)
(*  - Reply texts are tags [k, o]: k names the template, o the order id    *)
(*    the text names.                                                      *)
(*  - One turn (one call of an endpoint) is one atomic action: turns of    *)
(*    one conversation are sequential (spec section 5).                    *)
(*  - message.py calls get_history/append_to_history with a user_email     *)
(*    keyword and run_agent_llm reads data.size; storage/memory.py and     *)
(*    ResolutionInput as found under src/ declare neither.  The model      *)
(*    takes both interfaces as the callers use them (the keyword is        *)
(*    accepted, size is None); read literally, every /v1/message and       *)
(*    /v1/pipeline turn would end in HTTP 500 before any routing.          *)
(***************************************************************************)
EXTENDS Integers, Sequences, FiniteSets, TLC

NONE == "none"

\* ---------------------------------------------------------------- constants
MAX_AGENT_CALLS == 2
EscalationTotal == 5
RefundWindowDays == 30
ReturnWindowDays == 45

\* ------------------------------------------------------------------- bounds
\* Cap of the ghost counter of step-body runs since the conversation was made.
MaxRuns == 3
\* Number of operations in a run of the model.
MaxTurns == 2
\* The same for the runs over the few messages of LongMessages.
MaxLongTurns == 4
MaxOrchestratorTurns == 3
\* Largest count that a state dict handed to a guarded step starts with.
MaxCount == 3
\* Number of guarded calls made in a row on one state dict.
MaxCalls == 3
\* Largest max_turns of the history store, and number of appends in a run.
MaxCap == 3
MaxAppends == 5

Steps == <<"triage", "database", "policy", "resolution">>
StepNames == {Steps[i] : i \in 1..Len(Steps)}
\* test_agent is the wrapped function of the guard's unit tests.
AgentNames == StepNames \cup {"test_agent"}

ConvIds == {"c1"}

DestructiveIntents == {"refund", "return", "exchange", "cancel"}
ActionIntents == DestructiveIntents \cup {"order_tracking"}
Intents == ActionIntents \cup {"policy_info", "list_orders", "request_cancellation",
                               "general_question", "complaint", "technical_issue", "unknown"}

\* Orders on file: 7845 is Processing, 1001 was delivered 10 days ago, 1002 is
\* Shipped, 2002 was delivered 40 days ago; 9999 is an id that no order has.
\* AskedIds are the ids of orders on file that messages name.
AskedIds == {"7845", "1001"}
DbIds == AskedIds \cup {"1002", "2002"}
OrderIds == DbIds \cup {"9999"}
DaysSinceDelivery ==
    [o \in DbIds |-> CASE o = "1001" -> 10 [] o = "2002" -> 40 [] OTHER -> -1]
InitialStatus ==
    [o \in DbIds |-> CASE o \in {"1001", "2002"} -> "Delivered"
                       [] o = "1002" -> "Shipped"
                       [] OTHER -> "Processing"]

\* ------------------------------------------------------------ state records
NoDetails == [oid |-> NONE, status |-> NONE, days |-> -1]
NoPolicy == [allowed |-> FALSE, policy_type |-> NONE, checked |-> FALSE, set |-> FALSE]
NoReply == [k |-> NONE, o |-> NONE]
NoError == [k |-> NONE, who |-> NONE, msg |-> NONE]
EmptyEntities == [order_id |-> NONE, order_details |-> NoDetails, policy_result |-> NoPolicy,
                  pending_intent |-> NONE, confirmation_status |-> NONE, action |-> NONE]
NoAttempts == [a \in AgentNames |-> 0]

\* The dict with no key at all ({} in Python); exists = FALSE is the absent
\* record, conversation_id tells whether the dict has that key.
EmptyState ==
    [exists |-> FALSE, conversation_id |-> FALSE, current_state |-> NONE, status |-> NONE, intent |-> NONE,
     entities |-> EmptyEntities, agents_called |-> << >>, attempts |-> NoAttempts,
     last_error |-> NoError, reply |-> NoReply,
     awaiting_order_id |-> FALSE, awaiting_confirmation |-> FALSE,
     pending_action |-> NONE, user_email |-> NONE]

Reply(k, o) == [k |-> k, o |-> o]
\* An error text: k names the template, who the step, msg the exception text.
Error(k, who) == [k |-> k, who |-> who, msg |-> NONE]

\* ConversationState is the schema of the StateGraph: the graph reads and
\* returns only its keys, so the pause flags, pending_action and user_email of
\* the dict handed to ainvoke do not reach the steps nor the result.
ConversationState(state) ==
    [state EXCEPT !.exists = TRUE, !.awaiting_order_id = FALSE,
                  !.awaiting_confirmation = FALSE, !.pending_action = NONE,
                  !.user_email = NONE]

\* A user message, by the features the code reads.
Msg(intent, oid, affirm, empty) == [intent |-> intent, oid |-> oid, affirm |-> affirm, empty |-> empty]
EmptyMsg == Msg("general_question", NONE, FALSE, TRUE)
\* "yes": a short message without support keyword is a general_question.
Yes == Msg("general_question", NONE, TRUE, FALSE)
\* The affirmation token is read only where handle_message finds a pending
\* confirmation, and there nothing else of the message is read: Yes stands
\* for every message with a token, elsewhere a message with a token behaves
\* as the same message without it.
\* Intents that read no order get none or 7845, 9999 comes with one intent
\* that looks it up on each path.
Messages ==
    {Msg(i, o, FALSE, FALSE) : i \in DestructiveIntents, o \in AskedIds \cup {NONE}}
    \cup {Msg(i, o, FALSE, FALSE) : i \in {"order_tracking", "request_cancellation",
                                           "general_question", "complaint"},
                                    o \in {"7845", NONE}}
    \cup {Msg(i, NONE, FALSE, FALSE) : i \in {"policy_info", "list_orders", "unknown",
                                              "technical_issue"}}
    \cup {Msg(i, "9999", FALSE, FALSE) : i \in {"refund", "general_question", "unknown"}}
    \cup {Msg("unknown", "7845", FALSE, FALSE)}
    \cup {Yes, EmptyMsg}

\* "hello", "I want a refund", "1001", "cancel order 7845", "yes", "".
LongMessages ==
    {Msg("general_question", NONE, FALSE, FALSE), Msg("refund", NONE, FALSE, FALSE),
     Msg("general_question", "1001", FALSE, FALSE), Msg("cancel", "7845", FALSE, FALSE),
     Yes, EmptyMsg}

\* ------------------------------------------------------------- policy rules
check_refund_policy(od) ==
    od.oid # NONE /\ od.status = "Delivered" /\ od.days >= 0 /\ od.days <= RefundWindowDays

check_return_policy(od) ==
    od.oid # NONE /\ od.status = "Delivered" /\ od.days >= 0 /\ od.days <= ReturnWindowDays

check_exchange_policy(od) == check_return_policy(od)

\* --------------------------------------------------------------- order store
fetch_order_details(dbv, order_id) ==
    IF order_id \in DbIds
    THEN [order_found |-> TRUE,
          order_details |-> [oid |-> order_id, status |-> dbv.status[order_id],
                             days |-> DaysSinceDelivery[order_id]]]
    ELSE [order_found |-> FALSE, order_details |-> NoDetails]

\* ------------------------------------------------------------ pipeline steps
\* A step body returns the state it leaves, whether it raised, and the
\* collaborator calls it made.
Returned(st, calls) == [raised |-> FALSE, e |-> NONE, st |-> st, calls |-> calls]
Raised(st, e, calls) == [raised |-> TRUE, e |-> e, st |-> st, calls |-> calls]

\* fx is what a body reads besides the state: the user message m, the order
\* store dbv, and for the unit-test body the text of the exception it raises
\* (NONE: it returns).
Fx(m, dbv, raises) == [m |-> m, dbv |-> dbv, raises |-> raises]

triage_agent(state, fx) ==
    LET m == fx.m IN
    IF m.empty
    THEN Returned([state EXCEPT !.last_error = Error("Empty user message", NONE),
                                !.current_state = "HUMAN_HANDOFF"], {})
    ELSE IF state.awaiting_order_id /\ state.intent # NONE
    THEN IF m.oid # NONE
         THEN Returned([state EXCEPT !.entities.order_id = m.oid,
                                     !.awaiting_order_id = FALSE,
                                     !.current_state = "DATA_FETCH"], {})
         ELSE Returned([state EXCEPT !.reply = Reply("ask_order_id_again", NONE),
                                     !.current_state = "COMPLETED"], {})
    ELSE Returned([state EXCEPT !.intent = m.intent,
                                !.entities.order_id = IF m.oid # NONE THEN m.oid ELSE @,
                                !.current_state = "DATA_FETCH"], {"run_triage"})

database_agent(state, fx) ==
    LET order_id == state.entities.order_id
        intent == state.intent
    IN
    IF order_id = NONE
    THEN IF intent \in {"general_question", "technical_issue"}
         THEN Returned([state EXCEPT !.entities.order_details = NoDetails,
                                     !.current_state = "POLICY_CHECK"], {})
         ELSE Returned([state EXCEPT !.reply = Reply("no_order_id", NONE),
                                     !.status = "handoff",
                                     !.current_state = "HUMAN_HANDOFF"], {})
    ELSE LET db_response == fetch_order_details(fx.dbv, order_id) IN
         IF ~db_response.order_found
         THEN Returned([state EXCEPT !.reply = Reply("order_not_found", order_id),
                                     !.status = "completed",
                                     !.current_state = "COMPLETED"], {"fetch_order_details"})
         ELSE Returned([state EXCEPT !.entities.order_details = db_response.order_details,
                                     !.current_state = "POLICY_CHECK"], {"fetch_order_details"})

PolicyResult(allowed, ptype, checked) ==
    [allowed |-> allowed, policy_type |-> ptype, checked |-> checked, set |-> TRUE]

\* Faulty variant: a result that does not allow the action is treated as a failure.
WithPolicyResult_failing(state, policy_result) ==
    IF policy_result.allowed
    THEN [state EXCEPT !.entities.policy_result = policy_result, !.current_state = "RESOLUTION"]
    ELSE [state EXCEPT !.entities.policy_result = policy_result,
                       !.last_error = Error("policy denied", "policy"),
                       !.current_state = "HUMAN_HANDOFF", !.status = "handoff"]

\* The result is stored and the phase moves to RESOLUTION whatever the result.
WithPolicyResult(state, policy_result) ==
    [state EXCEPT !.entities.policy_result = policy_result, !.current_state = "RESOLUTION"]

policy_agent(state, fx) ==
    LET intent == state.intent
        od == state.entities.order_details
        policy_result ==
            CASE intent = "refund" -> PolicyResult(check_refund_policy(od), "refund", TRUE)
              [] intent = "return" -> PolicyResult(check_return_policy(od), "return", TRUE)
              [] intent = "exchange" -> PolicyResult(check_exchange_policy(od), "exchange", TRUE)
              [] intent = "cancel" ->
                    PolicyResult(od.status \notin {"Delivered", "Shipped", "Cancelled"}, "cancel", TRUE)
              [] intent = "order_tracking" -> PolicyResult(TRUE, NONE, FALSE)
              [] intent \in {"complaint", "technical_issue", "general_question"} ->
                    PolicyResult(TRUE, NONE, FALSE)
              [] OTHER -> PolicyResult(FALSE, NONE, FALSE)
    IN Returned(WithPolicyResult(state, policy_result), {})

\* Faulty variant: the refund reply does not look at the policy result.
GenerateResponse_refund_denied(state) ==
    IF state.intent = "refund" THEN Reply("refund_denied", NONE) ELSE Reply("general", NONE)

\* The reply template that generate_<intent>_response picks.
GenerateResponse(state) ==
    LET intent == state.intent
        pr == state.entities.policy_result
        od == state.entities.order_details
    IN CASE intent = "refund" ->
                IF pr.allowed THEN Reply("refund_approved", od.oid) ELSE Reply("refund_denied", NONE)
         [] intent = "return" ->
                IF pr.allowed THEN Reply("return_approved", od.oid) ELSE Reply("return_denied", NONE)
         [] intent = "exchange" ->
                IF pr.allowed THEN Reply("exchange_approved", od.oid) ELSE Reply("exchange_denied", NONE)
         [] intent = "cancel" ->
                IF od.oid = NONE THEN Reply("cancel_no_details", NONE)
                ELSE IF od.status \in {"Delivered", "Shipped"} THEN Reply("cancel_too_late", od.oid)
                ELSE IF od.status = "Cancelled" THEN Reply("cancel_already", od.oid)
                ELSE Reply("cancel_processed", od.oid)
         [] intent = "order_tracking" ->
                IF od.oid = NONE THEN Reply("tracking_none", NONE) ELSE Reply("tracking", od.oid)
         [] intent = "complaint" -> Reply("complaint", od.oid)
         [] intent = "technical_issue" -> Reply("technical_issue", NONE)
         [] OTHER -> Reply("general", NONE)

\* Faulty variant: the action reply is generated without the confirmation check.
resolution_agent_ungated(state, fx) ==
    LET intent == state.intent IN
    IF intent \in DestructiveIntents \cup {"order_tracking", "complaint",
                                           "technical_issue", "general_question"}
    THEN Returned([state EXCEPT !.reply = GenerateResponse(state),
                                !.status = "completed",
                                !.current_state = "COMPLETED",
                                !.entities.confirmation_status = NONE,
                                !.entities.pending_intent = NONE,
                                !.entities.action = intent],
                  IF intent \in DestructiveIntents THEN {"generate_action_reply"} ELSE {})
    ELSE Returned([state EXCEPT !.current_state = "HUMAN_HANDOFF",
                                !.status = "handoff",
                                !.reply = Reply("handoff_unknown_intent", NONE)], {})

resolution_agent(state, fx) ==
    LET intent == state.intent IN
    IF intent \in DestructiveIntents /\ state.entities.confirmation_status # "confirmed"
    THEN Returned([state EXCEPT !.reply = Reply("are_you_sure", state.entities.order_details.oid),
                                !.status = "completed",
                                !.current_state = "COMPLETED",
                                !.entities.action = "CONFIRMATION_REQUIRED",
                                !.entities.pending_intent = intent], {})
    ELSE IF intent \in DestructiveIntents \cup {"order_tracking", "complaint",
                                                "technical_issue", "general_question"}
    THEN Returned([state EXCEPT !.reply = GenerateResponse(state),
                                !.status = "completed",
                                !.current_state = "COMPLETED",
                                !.entities.confirmation_status = NONE,
                                !.entities.pending_intent = NONE,
                                !.entities.action = intent],
                  IF intent \in DestructiveIntents THEN {"generate_action_reply"} ELSE {})
    ELSE Returned([state EXCEPT !.current_state = "HUMAN_HANDOFF",
                                !.status = "handoff",
                                !.reply = Reply("handoff_unknown_intent", NONE)], {})

\* The wrapped function of the guard's unit tests: sets a mark or raises.
test_agent(state, fx) ==
    IF fx.raises # NONE THEN Raised(state, fx.raises, {})
    ELSE Returned([state EXCEPT !.entities.action = "executed"], {})

WrappedFn(agent_name, state, fx) ==
    CASE agent_name = "triage" -> triage_agent(state, fx)
      [] agent_name = "database" -> database_agent(state, fx)
      [] agent_name = "policy" -> policy_agent(state, fx)
      [] agent_name = "resolution" -> resolution_agent(state, fx)
      [] OTHER -> test_agent(state, fx)

\* --------------------------------------------------------------- step guard
\* The wrapper that agent_guard(agent_name) puts around a step: the state
\* returned, whether the call itself raised, the bodies run, the steps
\* refused and the collaborator calls made.
Refused(agent_name, state) ==
    [st |-> [state EXCEPT !.current_state = "HUMAN_HANDOFF",
                          !.status = "handoff",
                          !.last_error = Error("exceeded retry limit", agent_name)],
     raised |-> FALSE, ran |-> << >>, refused |-> <<agent_name>>, calls |-> {}]

\* try: return await fn(state) / except Exception as e, for the outcome r of fn.
Caught(agent_name, r) ==
    [st |-> IF r.raised
            THEN [r.st EXCEPT !.last_error = [Error("error", agent_name) EXCEPT !.msg = r.e],
                              !.current_state = "HUMAN_HANDOFF",
                              !.status = "handoff"]
            ELSE r.st,
     raised |-> FALSE, ran |-> <<agent_name>>, refused |-> << >>, calls |-> r.calls]

\* Faulty variant: the limit is compared with > instead of >=.
agent_guard_late_limit(agent_name, state, fx) ==
    IF state.attempts[agent_name] > MAX_AGENT_CALLS
    THEN Refused(agent_name, state)
    ELSE Caught(agent_name,
                WrappedFn(agent_name,
                          [state EXCEPT !.attempts[agent_name] = @ + 1,
                                        !.agents_called = Append(@, agent_name)],
                          fx))

\* Faulty variant: no try/except around the wrapped function.
Uncaught(agent_name, r) ==
    [st |-> r.st, raised |-> r.raised, ran |-> <<agent_name>>, refused |-> << >>,
     calls |-> r.calls]

agent_guard_no_except(agent_name, state, fx) ==
    IF state.attempts[agent_name] >= MAX_AGENT_CALLS
    THEN Refused(agent_name, state)
    ELSE Uncaught(agent_name,
                  WrappedFn(agent_name,
                            [state EXCEPT !.attempts[agent_name] = @ + 1,
                                          !.agents_called = Append(@, agent_name)],
                            fx))

\* Faulty variant: the call is neither counted nor tracked.
agent_guard_no_count(agent_name, state, fx) ==
    IF state.attempts[agent_name] >= MAX_AGENT_CALLS
    THEN Refused(agent_name, state)
    ELSE Caught(agent_name, WrappedFn(agent_name, state, fx))

agent_guard(agent_name, state, fx) ==
    IF state.attempts[agent_name] >= MAX_AGENT_CALLS
    THEN Refused(agent_name, state)
    ELSE Caught(agent_name,
                WrappedFn(agent_name,
                          [state EXCEPT !.attempts[agent_name] = @ + 1,
                                        !.agents_called = Append(@, agent_name)],
                          fx))

\* ----------------------------------------------------------- pipeline graph
should_continue_to_database(state) ==
    IF state.current_state = "HUMAN_HANDOFF" THEN "end"
    ELSE IF state.current_state = "DATA_FETCH" THEN "database" ELSE "end"

\* Faulty variant: every phase other than the handoff goes on to policy.
should_continue_to_policy_lenient(state) ==
    IF state.current_state = "HUMAN_HANDOFF" THEN "end" ELSE "policy"

should_continue_to_policy(state) ==
    IF state.current_state = "HUMAN_HANDOFF" THEN "end"
    ELSE IF state.current_state = "POLICY_CHECK" THEN "policy" ELSE "end"

should_continue_to_resolution(state) ==
    IF state.current_state = "HUMAN_HANDOFF" THEN "end"
    ELSE IF state.current_state = "RESOLUTION" THEN "resolution" ELSE "end"

should_end(state) == "end"

\* The outcome g1 of the steps so far, followed by the outcome g2 of the next.
Joined(g1, g2) ==
    [st |-> g2.st, raised |-> FALSE, ran |-> g1.ran \o g2.ran,
     refused |-> g1.refused \o g2.refused, calls |-> g1.calls \cup g2.calls]

\* g1 followed by the guarded step agent_name.
Then(g1, agent_name, fx) == Joined(g1, agent_guard(agent_name, g1.st, fx))

\* The conditional edges after policy, database and triage.
AfterPolicy(p, fx) ==
    IF should_continue_to_resolution(p.st) # "resolution" THEN p
    ELSE Then(p, "resolution", fx)

AfterDatabase(d, fx) ==
    IF should_continue_to_policy(d.st) # "policy" THEN d
    ELSE AfterPolicy(Then(d, "policy", fx), fx)

AfterTriage(t, fx) ==
    IF should_continue_to_database(t.st) # "database" THEN t
    ELSE AfterDatabase(Then(t, "database", fx), fx)

\* graph.ainvoke(state): entry point triage, then the conditional edges.
build_graph(state, fx) ==
    AfterTriage(agent_guard("triage", ConversationState(state), fx), fx)

\* -------------------------------------------------------- escalation policy
RECURSIVE SumOver(_, _)
SumOver(f, S) == IF S = {} THEN 0 ELSE LET x == CHOOSE x \in S : TRUE IN f[x] + SumOver(f, S \ {x})

\* Faulty variant: a total of EscalationTotal already escalates.
should_escalate_at_total(state) ==
    \/ state.current_state = "HUMAN_HANDOFF"
    \/ state.last_error.k # NONE
    \/ SumOver(state.attempts, AgentNames) >= EscalationTotal

should_escalate(state) ==
    \/ state.current_state = "HUMAN_HANDOFF"
    \/ state.last_error.k # NONE
    \/ SumOver(state.attempts, AgentNames) > EscalationTotal

\* -------------------------------------------------------------- orchestrator
\* The state that run_orchestrator hands to the graph.
Entered(prev) ==
    IF ~prev.exists
    THEN [EmptyState EXCEPT !.exists = TRUE,
                            !.conversation_id = TRUE,
                            !.current_state = "AWAITING_INTENT",
                            !.status = "in_progress"]
    ELSE [prev EXCEPT !.status = "in_progress", !.last_error = NoError]

\* Faulty variant: the graph's result is saved as it is.
Escalated_never(g) == [st |-> g.st, ran |-> g.ran, refused |-> g.refused, calls |-> g.calls]

\* The escalation check on the graph's result g, and what is saved and returned.
Escalated(g) ==
    [st |-> IF should_escalate(g.st)
            THEN [g.st EXCEPT !.status = "handoff",
                              !.current_state = "HUMAN_HANDOFF",
                              !.reply = IF @.k = NONE
                                        THEN Reply("escalation_apology", NONE) ELSE @]
            ELSE g.st,
     ran |-> g.ran, refused |-> g.refused, calls |-> g.calls]

\* run_orchestrator(conversation_id, message) on the stored record prev:
\* the state it saves and returns, with the step bodies run.
run_orchestrator(prev, m, dbv) == Escalated(build_graph(Entered(prev), Fx(m, dbv, NONE)))

\* ------------------------------------------------- collaborators of the API
GUEST == "guest@example.com"
\* u1 has three orders on file, u2 has one; Emails are the senders of the
\* runs over Messages.
AllEmails == {"u1", "u2"}
Emails == {"u1"}
OrderOwner == [o \in DbIds |-> IF o = "2002" THEN "u2" ELSE "u1"]

fetch_orders_by_email(email) == {o \in DbIds : OrderOwner[o] = email}

\* fetch_order_details(order_id, user_email): the generated query filters on
\* the email unless it is missing or the guest address.
fetch_order_details_for(dbv, order_id, user_email) ==
    IF order_id \in DbIds /\ (user_email \in {NONE, GUEST} \/ OrderOwner[order_id] = user_email)
    THEN fetch_order_details(dbv, order_id)
    ELSE [order_found |-> FALSE, order_details |-> NoDetails]

Processed(request_type) ==
    CASE request_type = "refund" -> "Refund Processed"
      [] request_type = "return" -> "Return Processed"
      [] OTHER -> "Exchange Processed"

record_approved_request(dbv, order_id, request_type) ==
    [status |-> [o \in DbIds |-> IF o = order_id THEN Processed(request_type) ELSE dbv.status[o]],
     approved |-> [o \in OrderIds |-> IF o = order_id THEN TRUE ELSE dbv.approved[o]]]

cancel_existing_request(dbv, order_id) ==
    IF dbv.approved[order_id]
    THEN [success |-> TRUE,
          dbv |-> [status |-> [o \in DbIds |-> IF o = order_id THEN "Delivered" ELSE dbv.status[o]],
                   approved |-> [dbv.approved EXCEPT ![order_id] = FALSE]]]
    ELSE [success |-> FALSE, dbv |-> dbv]

get_stage_transition(action) ==
    CASE action = "exchange" -> {"EXCHANGED"}
      [] action \in {"cancel", "refund"} -> {"CANCELLED", "REFUND_DONE"}
      [] action = "return" -> {"RETURNED"}
      [] OTHER -> {}

ResolutionInput(order_id, intent, status, exchange_allowed, cancel_allowed) ==
    [order_id |-> order_id, intent |-> intent, status |-> status,
     exchange_allowed |-> exchange_allowed, cancel_allowed |-> cancel_allowed]

\* run_agent_llm: the action it decides, the reply template and the status
\* key of its result (only the tracking result has one).
LlmResult(action, status) == [action |-> action, message |-> Reply(action, NONE), status |-> status]

run_agent_llm(data) ==
    LET intent == data.intent
        r == CASE intent = "order_tracking" ->
                      LlmResult("order_tracking", IF data.status # NONE THEN data.status ELSE "processing")
               [] intent = "complaint" -> LlmResult("complaint", NONE)
               [] intent = "technical_issue" -> LlmResult("technical_issue", NONE)
               [] intent \in {"cancel", "refund"} /\ ~data.cancel_allowed -> LlmResult("deny", NONE)
               [] intent = "return" /\ ~data.exchange_allowed -> LlmResult("return_deny", NONE)
               [] intent = "return" /\ data.exchange_allowed -> LlmResult("return", NONE)
               [] intent = "exchange" /\ ~data.exchange_allowed -> LlmResult("exchange_deny", NONE)
               [] intent = "exchange" /\ data.exchange_allowed -> LlmResult("exchange", NONE)
               [] intent \in {"cancel", "refund"} /\ data.cancel_allowed -> LlmResult("cancel", NONE)
               [] OTHER -> LlmResult("unable", NONE)
    IN [r EXCEPT !.message = Reply("llm_" \o r.action, data.order_id)]

\* Faulty variant: the stored intent is not put into the rewritten message.
RewrittenMsg_without_intent(intent, order_id) == Msg("general_question", order_id, FALSE, FALSE)

\* What run_triage makes of the text f"{intent} order {order_id}" that the
\* order-id continuations put in place of the user's message.
RewrittenMsg(intent, order_id) ==
    Msg(IF intent \in ActionIntents \cup {"policy_info"} THEN intent ELSE "general_question",
        order_id, FALSE, FALSE)

\* ------------------------------------------------------- outcome of a turn
Response(status, reply, intent, order_id, agents_called, current_state) ==
    [http |-> 200, status |-> status, reply |-> reply, intent |-> intent, order_id |-> order_id,
     agents_called |-> agents_called, current_state |-> current_state,
     orders |-> {}, ro_action |-> NONE, ro_status |-> NONE, detail |-> NONE]

\* HTTPException(status_code=500, detail=f"Error processing message: {str(e)}"):
\* no response body of the endpoint's model; the detail carries the text of
\* the exception.
Http500 ==
    [Response(NONE, NoReply, NONE, NONE, << >>, NONE)
        EXCEPT !.http = 500, !.detail = "Error processing message: str(e)"]

\* st: the record the store holds when the turn returns; dbv: the order store;
\* ran: the step bodies run; refused: the steps the guard refused; calls:
\* collaborator calls; saved: save_state was called; hist: the roles appended
\* to the history; route: the branch taken; user_orders: the caller's orders
\* that handle_message fetched to find the order; matched: those of them
\* that the message keyword-matches.
Turn(st, dbv, resp, ran, calls, saved, hist, route) ==
    [st |-> st, dbv |-> dbv, resp |-> resp, ran |-> ran, refused |-> << >>, calls |-> calls,
     saved |-> saved, hist |-> hist, route |-> route, user_orders |-> {}, matched |-> {}]

\* Faulty variant: every dict literal carries the order-id pause flag.
NewDictWithOrderPause ==
    [EmptyState EXCEPT !.exists = TRUE, !.conversation_id = TRUE, !.awaiting_order_id = TRUE]

\* A dict literal handed to save_state: only the keys it names are present.
NewDict == [EmptyState EXCEPT !.exists = TRUE, !.conversation_id = TRUE]

\* ----------------------------------------------------- POST /v1/pipeline
PipelineResponse(status, message, intent, order_id, ro_action, ro_status) ==
    [Response(status, message, intent, order_id, << >>, NONE)
        EXCEPT !.ro_action = ro_action, !.ro_status = ro_status]

PolicyOutput(policy_type, allowed) == [policy_type |-> policy_type, allowed |-> allowed]

\* Faulty variant: every destructive request counts as confirmed.
is_confirmed_always(previous_state, intent, order_id) == TRUE

\* is_confirmed of run_pipeline: the stored state holds this very request, confirmed.
is_confirmed(previous_state, intent, order_id) ==
    /\ previous_state.awaiting_confirmation
    /\ previous_state.entities.pending_intent = intent
    /\ previous_state.entities.order_id = order_id
    /\ previous_state.entities.confirmation_status = "confirmed"

\* Steps 2-4 of run_pipeline and its final save, for a message that triage
\* resolved to (intent, order_id); cur is what the store holds so far.
PipelineSteps(previous_state, intent, order_id, user_email, dbv, calls0) ==
    LET previous_entities == previous_state.entities
        db_out == IF order_id # NONE
                  THEN fetch_order_details_for(dbv, order_id, user_email)
                  ELSE [order_found |-> previous_entities.order_details.oid # NONE,
                        order_details |-> previous_entities.order_details]
        found == db_out.order_found /\ db_out.order_details.oid # NONE
        od == db_out.order_details
        policy_output ==
            IF ~found THEN PolicyOutput(NONE, FALSE)
            ELSE CASE intent = "refund" -> PolicyOutput("refund", check_refund_policy(od))
                   [] intent = "return" -> PolicyOutput("return", check_return_policy(od))
                   [] intent = "exchange" -> PolicyOutput("exchange", check_exchange_policy(od))
                   [] OTHER -> PolicyOutput(NONE, TRUE)
        resolution_input ==
            ResolutionInput(order_id, intent, od.status,
                            policy_output.policy_type \in {"exchange", "return"} /\ policy_output.allowed,
                            policy_output.policy_type \in {"refund", "cancel"} /\ policy_output.allowed)
        confirmed == is_confirmed(previous_state, intent, order_id)
        resolution_result == run_agent_llm(resolution_input)
        recorded == resolution_result.action \in {"refund", "return", "exchange"} /\ policy_output.allowed
        stage_keys == get_stage_transition(resolution_result.action)
        calls1 == calls0 \cup (IF order_id # NONE THEN {"fetch_order_details"} ELSE {})
        final_state == [NewDict EXCEPT !.entities =
                           [EmptyEntities EXCEPT
                               !.order_id = IF order_id # NONE THEN order_id ELSE previous_entities.order_id,
                               !.order_details = IF db_out.order_found THEN od
                                                 ELSE previous_entities.order_details]]
    IN
    IF ~found
    THEN Turn(final_state, dbv,
              PipelineResponse("completed", Reply("unable_no_order", NONE), intent, order_id, "deny", NONE),
              << >>, calls1, TRUE, {"user", "assistant"}, "pipeline_no_order")
    ELSE IF order_id = NONE
    THEN Turn(final_state, dbv,
              PipelineResponse("completed", Reply("resolution_error", NONE), intent, order_id, "error", NONE),
              << >>, calls1, TRUE, {"user", "assistant"}, "pipeline_error")
    ELSE IF intent \in DestructiveIntents /\ ~confirmed
    THEN Turn([NewDict EXCEPT !.awaiting_confirmation = TRUE,
                              !.pending_action = intent,
                              !.entities = [EmptyEntities EXCEPT
                                               !.order_id = order_id,
                                               !.order_details = od,
                                               !.pending_intent = intent,
                                               !.policy_result =
                                                   [allowed |-> policy_output.allowed,
                                                    policy_type |-> policy_output.policy_type,
                                                    checked |-> FALSE, set |-> TRUE]],
                              !.status = "awaiting_confirmation"],
              dbv,
              PipelineResponse("awaiting_confirmation", Reply("confirm_action", order_id), intent,
                               order_id, "CONFIRMATION_REQUIRED", "awaiting_confirmation"),
              << >>, calls1, TRUE, {"user", "assistant"}, "pipeline_confirm")
    ELSE Turn(final_state,
              IF recorded THEN record_approved_request(dbv, order_id, resolution_result.action) ELSE dbv,
              PipelineResponse("completed", resolution_result.message, intent, order_id,
                               resolution_result.action, resolution_result.status),
              << >>,
              calls1 \cup {"run_agent_llm"}
                     \cup (IF recorded THEN {"record_approved_request"} ELSE {})
                     \cup (IF stage_keys # {} THEN {"update_deal_stage"} ELSE {}),
              TRUE, {"user", "assistant"}, "pipeline_resolved")

run_pipeline(stored, m, req_email, dbv) ==
    LET previous_state0 == IF stored.exists THEN stored ELSE EmptyState
        user_email == IF req_email # NONE THEN req_email ELSE previous_state0.user_email
        awaiting == previous_state0.awaiting_order_id
        found_id == IF previous_state0.entities.order_id # NONE
                    THEN previous_state0.entities.order_id ELSE m.oid
    IN
    IF awaiting /\ found_id = NONE
    THEN Turn(stored, dbv,
              PipelineResponse("awaiting_input", Reply("reprompt_order_id", NONE),
                               IF previous_state0.intent # NONE THEN previous_state0.intent ELSE "unknown",
                               NONE, "awaiting_order_id", "awaiting_input"),
              << >>, {"run_triage"}, FALSE, {"user", "assistant"}, "pipeline_reprompt")
    ELSE
    LET previous_state == IF awaiting
                          THEN [previous_state0 EXCEPT !.awaiting_order_id = FALSE,
                                                       !.entities.order_id = found_id]
                          ELSE previous_state0
        cur == IF awaiting THEN previous_state ELSE stored
        msg == IF awaiting THEN RewrittenMsg(previous_state0.intent, found_id) ELSE m
        intent == msg.intent
        order_id == IF msg.oid # NONE THEN msg.oid ELSE previous_state.entities.order_id
        calls0 == {"run_triage"}
        both == {"user", "assistant"}
    IN
    IF intent = "policy_info"
    THEN Turn(cur, dbv, PipelineResponse("completed", Reply("policy_info", NONE), intent, msg.oid,
                                         "policy_info", "completed"),
              << >>, calls0, awaiting, both, "pipeline_policy_info")
    ELSE IF intent \in {"general_question", "unknown"}
    THEN Turn(cur, dbv, PipelineResponse("completed", Reply("friendly", NONE), intent, msg.oid,
                                         "general_conversation", "completed"),
              << >>, calls0, awaiting, both, "pipeline_general")
    ELSE IF intent = "list_orders"
    THEN Turn(cur, dbv, PipelineResponse("completed", Reply("list_orders", NONE), intent, msg.oid,
                                         "list_orders", "completed"),
              << >>, calls0 \cup (IF user_email # GUEST THEN {"fetch_orders_by_email"} ELSE {}),
              awaiting, both, "pipeline_list_orders")
    ELSE IF intent = "request_cancellation"
    THEN LET c == IF msg.oid # NONE THEN cancel_existing_request(dbv, msg.oid)
                  ELSE [success |-> FALSE, dbv |-> dbv]
         IN Turn(cur, c.dbv,
                 PipelineResponse("completed",
                                  IF msg.oid = NONE THEN Reply("need_order_id", NONE)
                                  ELSE IF c.success THEN Reply("request_cancelled", msg.oid)
                                  ELSE Reply("request_not_found", msg.oid),
                                  intent, msg.oid, "cancel_request", "completed"),
                 << >>, calls0 \cup (IF msg.oid # NONE THEN {"cancel_existing_request"} ELSE {}),
                 awaiting, both, "pipeline_request_cancellation")
    ELSE IF intent \in ActionIntents /\ order_id = NONE
    THEN Turn([NewDict EXCEPT !.intent = intent,
                              !.awaiting_order_id = TRUE,
                              !.entities = previous_state.entities,
                              !.status = "awaiting_input"],
              dbv,
              PipelineResponse("awaiting_input", Reply("ask_order_id", NONE), intent, NONE,
                               "awaiting_order_id", "awaiting_input"),
              << >>, calls0, TRUE, both, "pipeline_ask_order_id")
    ELSE PipelineSteps(previous_state, intent, order_id, user_email, dbv, calls0)

\* ------------------------------------------------------ POST /v1/message
MessageResponse(state) ==
    Response(state.status, state.reply, state.intent, state.entities.order_id,
             state.agents_called, state.current_state)

\* ROUTE 2, affirmative reply: the stored pending action is carried out.
ConfirmedAction(previous_state, user_email, crm_fails, dbv, saved, calls0) ==
    LET pending_action == previous_state.pending_action
        saved_entities == previous_state.entities
        pending_order_id == saved_entities.order_id
        od == saved_entities.order_details
        stored_policy == saved_entities.policy_result
        resolution_result ==
            run_agent_llm(ResolutionInput(pending_order_id, pending_action, od.status,
                            stored_policy.policy_type \in {"exchange", "return"} /\ stored_policy.allowed,
                            stored_policy.policy_type \in {"refund", "cancel"} /\ stored_policy.allowed))
        stage_keys == get_stage_transition(resolution_result.action)
        crm_succeeded == ~(crm_fails /\ stage_keys # {})
        recorded == resolution_result.action \in {"refund", "return", "exchange"}
        new_state == [NewDict EXCEPT
                         !.reply = resolution_result.message,
                         !.status = "completed",
                         !.intent = pending_action,
                         !.entities = [EmptyEntities EXCEPT !.order_id = pending_order_id,
                                                            !.order_details = od],
                         !.agents_called = <<"database", "policy", "resolution">>
                                              \o (IF crm_succeeded THEN <<"crm">> ELSE << >>),
                         !.current_state = "COMPLETED"]
    IN IF pending_order_id = NONE
       THEN Turn(previous_state, dbv, Http500, << >>, calls0, saved, {}, "confirm_invalid_input")
       ELSE Turn(new_state,
                 IF recorded THEN record_approved_request(dbv, pending_order_id, resolution_result.action)
                 ELSE dbv,
                 MessageResponse(new_state), << >>,
                 calls0 \cup {"run_agent_llm"}
                        \cup (IF stage_keys # {} THEN {"update_deal_stage"} ELSE {})
                        \cup (IF recorded THEN {"record_approved_request"} ELSE {}),
                 TRUE, {"user", "assistant"}, "confirm_llm")

\* A run of the orchestrator from handle_message and the response built from
\* the state it returns; state["conversation_id"] raises when the key is absent.
Answered(o, dbv, calls0, route) ==
    [Turn(o.st, dbv,
          IF o.st.conversation_id THEN MessageResponse(o.st) ELSE Http500,
          o.ran, calls0 \cup o.calls, TRUE, {}, route)
        EXCEPT !.refused = o.refused]

OrchestratorTurn(cur, msg, dbv, calls0, route) ==
    Answered(run_orchestrator(cur, msg, dbv), dbv, calls0, route)

\* The response of handle_message from the outcome p of the nested run_pipeline.
Nested(p, saved, calls0) ==
    Turn(p.st, p.dbv,
         Response(IF p.resp.ro_status # NONE THEN p.resp.ro_status ELSE "completed",
                  p.resp.reply, p.resp.intent, p.resp.order_id, << >>, NONE),
         p.ran, calls0 \cup p.calls, saved \/ p.saved, p.hist, p.route)

\* ROUTES 4 and 5, for the intent, order id and message text in force.
ActionOrDefault(cur, intent, order_id, msg, req_email, dbv, saved, calls0) ==
    IF intent \in ActionIntents
    THEN IF order_id = NONE
         THEN Turn([NewDict EXCEPT !.intent = intent, !.awaiting_order_id = TRUE,
                                   !.status = "awaiting_input"],
                   dbv, Response("awaiting_input", Reply("ask_order_id", NONE), intent, NONE, << >>, NONE),
                   << >>, calls0, TRUE, {}, "ask_order_id")
         ELSE IF intent = "cancel"
         THEN Turn([NewDict EXCEPT !.intent = intent, !.awaiting_confirmation = TRUE,
                                   !.pending_action = "cancel",
                                   !.entities = [EmptyEntities EXCEPT !.order_id = order_id],
                                   !.status = "awaiting_confirmation"],
                   dbv,
                   Response("awaiting_confirmation", Reply("confirm_cancel", order_id), intent,
                            order_id, << >>, NONE),
                   << >>, calls0, TRUE, {}, "confirm_cancel")
         ELSE Nested(run_pipeline(cur, msg, req_email, dbv), saved, calls0)
    ELSE OrchestratorTurn(cur, msg, dbv, calls0, "orchestrator")

\* Faulty variant: the answer is saved as a new state dict, which ends a pause.
PolicyInfoTurn_clearing(previous_state, dbv, saved, calls0) ==
    Turn([NewDict EXCEPT !.intent = "policy_info", !.status = "completed"], dbv,
         Response("completed", Reply("policy_info", NONE), "policy_info", NONE, << >>, NONE),
         << >>, calls0, TRUE, {}, "policy_info")

\* ROUTE 1: get_policy_information answers; nothing is saved, nothing appended.
PolicyInfoTurn(previous_state, dbv, saved, calls0) ==
    Turn(previous_state, dbv,
         Response("completed", Reply("policy_info", NONE), "policy_info", NONE, << >>, NONE),
         << >>, calls0, saved, {}, "policy_info")

\* ROUTES 1 to 3, after the product-based order resolution.
Routes(previous_state, m, order_id, user_email, req_email, crm_fails, dbv, saved, calls0) ==
    LET intent == m.intent
        msg == [m EXCEPT !.oid = order_id]
    IN
    IF intent = "policy_info"
    THEN PolicyInfoTurn(previous_state, dbv, saved, calls0)
    ELSE IF intent = "list_orders"
    THEN Turn(previous_state, dbv,
              [Response("completed", Reply("list_orders", NONE), "list_orders", NONE, << >>, NONE)
                  EXCEPT !.orders = IF user_email = GUEST THEN {} ELSE fetch_orders_by_email(user_email)],
              << >>, calls0 \cup (IF user_email = GUEST THEN {} ELSE {"fetch_orders_by_email"}),
              saved, {"user", "assistant"}, "list_orders")
    ELSE IF intent = "request_cancellation"
    THEN IF order_id = NONE
         THEN Turn([NewDict EXCEPT !.intent = "request_cancellation", !.awaiting_order_id = TRUE,
                                   !.status = "awaiting_input"],
                   dbv, Response("awaiting_input", Reply("ask_order_id", NONE), intent, NONE, << >>, NONE),
                   << >>, calls0, TRUE, {}, "request_cancellation_ask")
         ELSE LET c == cancel_existing_request(dbv, order_id) IN
              Turn(previous_state, c.dbv,
                   Response("completed",
                            IF c.success THEN Reply("request_cancelled", order_id)
                            ELSE Reply("request_not_found", order_id),
                            intent, order_id, << >>, NONE),
                   << >>, calls0 \cup {"cancel_existing_request"}, saved, {}, "request_cancellation")
    ELSE IF previous_state.awaiting_confirmation
    THEN IF m.affirm
         THEN IF /\ previous_state.pending_action \in DestructiveIntents
                 /\ previous_state.entities.order_details.oid # NONE
                 /\ previous_state.entities.pending_intent # NONE
              THEN ConfirmedAction(previous_state, user_email, crm_fails, dbv, saved, calls0)
              ELSE OrchestratorTurn(previous_state,
                                    Msg("cancel", previous_state.entities.order_id, FALSE, FALSE),
                                    dbv, calls0, "confirm_fallback")
         ELSE Turn([previous_state EXCEPT !.awaiting_confirmation = FALSE, !.pending_action = NONE],
                   dbv,
                   Response("completed", Reply("declined", NONE), previous_state.intent, NONE, << >>, NONE),
                   << >>, calls0, TRUE, {}, "decline")
    ELSE IF previous_state.awaiting_order_id
    THEN IF order_id # NONE
         THEN ActionOrDefault([previous_state EXCEPT !.awaiting_order_id = FALSE],
                              previous_state.intent, order_id,
                              RewrittenMsg(previous_state.intent, order_id),
                              req_email, dbv, TRUE, calls0)
         ELSE Turn(previous_state, dbv,
                   Response("awaiting_input", Reply("reprompt_order_id", NONE), previous_state.intent,
                            NONE, << >>, NONE),
                   << >>, calls0, saved, {}, "reprompt")
    ELSE ActionOrDefault(previous_state, intent, order_id, msg, req_email, dbv, saved, calls0)

\* Faulty variant: the candidates are always all the orders on file.
Matches_all(matched, user_orders) == user_orders

\* The candidate orders: the keyword matches, or every order on file when
\* no product is matched.
Matches(matched, user_orders) == IF matched = {} THEN user_orders ELSE matched

\* The turn t, with the orders looked at to find the one the message is about.
Resolved(user_orders, matched, t) == [t EXCEPT !.user_orders = user_orders, !.matched = matched]

\* mentions: the orders whose product name the message keyword-matches.
handle_message(stored, m, req_email, mentions, crm_fails, dbv) ==
    LET previous_state0 == IF stored.exists THEN stored ELSE EmptyState
        user_email == IF req_email # NONE THEN req_email
                      ELSE IF previous_state0.user_email # NONE THEN previous_state0.user_email
                      ELSE GUEST
        resolving == m.intent \in ActionIntents /\ m.oid = NONE /\ user_email # GUEST
        user_orders == IF resolving THEN fetch_orders_by_email(user_email) ELSE {}
        matched == mentions \cap user_orders
        matches == Matches(matched, user_orders)
        calls0 == {"run_triage"} \cup (IF resolving THEN {"fetch_orders_by_email"} ELSE {})
    IN
    Resolved(user_orders, matched,
    IF Cardinality(matches) > 1
    THEN Turn([NewDict EXCEPT !.intent = m.intent, !.awaiting_order_id = TRUE,
                              !.entities = previous_state0.entities,
                              !.status = "awaiting_input"],
              dbv,
              [Response("awaiting_input", Reply("choose_order", NONE), m.intent, NONE, << >>, NONE)
                  EXCEPT !.orders = matches],
              << >>, calls0, TRUE, {"user", "assistant"}, "disambiguation")
    ELSE LET order_id == IF Cardinality(matches) = 1 THEN CHOOSE o \in matches : TRUE ELSE m.oid
             first == previous_state0.user_email = NONE
             previous_state == IF first
                               THEN [previous_state0 EXCEPT !.exists = TRUE, !.user_email = user_email]
                               ELSE previous_state0
         IN Routes(previous_state, m, order_id, user_email, req_email, crm_fails, dbv, first, calls0))

\* ------------------------------------------------------------ state machine
VARIABLES
    store,      \* _STORE: the record saved last for each conversation id
    db,         \* the orders table
    last,       \* the turn made last: its inputs, the record it loaded, its outcome
    runs,       \* per conversation and step, the bodies run since the conversation was made
    turns,      \* the operations made so far
    guarded,    \* the state dict that the guarded calls of the unit level pass on
    escalation, \* a state dict and what should_escalate returned for it
    hstore,     \* _HISTORY, with the entries appended so far and the cap in use
    kv,         \* _STORE at unit level, with the call made last and what it returned
    graph,      \* one invocation of the compiled graph, node by node
    inflight    \* the run_orchestrator turns that overlap on _STORE, one per worker

vars == <<store, db, last, runs, turns, guarded, escalation, hstore, kv, graph, inflight>>

InitialDb == [status |-> InitialStatus, approved |-> [o \in OrderIds |-> FALSE]]

NoRuns == [s \in StepNames |-> 0]

NoTurn ==
    [op |-> NONE, conv |-> NONE, m |-> EmptyMsg,
     resp |-> Http500, ran |-> << >>, refused |-> << >>, calls |-> {}, saved |-> FALSE,
     hist |-> {}, route |-> NONE, user_orders |-> {}, matched |-> {}]

NoGuarded ==
    [name |-> NONE, pre |-> EmptyState, e |-> NONE, out |-> EmptyState, raised |-> FALSE,
     ran |-> << >>]

NoEscalation == [state |-> EmptyState, result |-> FALSE, done |-> FALSE]

\* Conversation ids of the history store, and the store before any append.
HistoryIds == {"h1", "h2"}
NoHistory ==
    [history |-> [h \in HistoryIds |-> << >>], appended |-> [h \in HistoryIds |-> << >>],
     max_turns |-> 1, n |-> 0]

\* Conversation ids and state dicts of the store at unit level; a slot of
\* the store holds a dict or nothing, load_state returns a dict or None.
StoreIds == {"conv-1", "conv-2", "conv-3"}
StoreValues == {[NewDict EXCEPT !.intent = i] : i \in {"refund", "return", "cancel"}}
Nothing == [none |-> TRUE, state |-> EmptyState]
Some(state) == [none |-> FALSE, state |-> state]

NoStore ==
    [mem |-> [i \in StoreIds |-> Nothing], live |-> [i \in StoreIds |-> FALSE],
     op |-> NONE, id |-> NONE, arg |-> EmptyState, result |-> Nothing, raised |-> FALSE]

\* The workers that handle requests at the same time, the conversation ids
\* they are asked about, and the messages they are sent.
Workers == {"w1", "w2"}
OverlapIds == {"conv-1", "conv-2"}
OverlapMessages ==
    {Msg("general_question", NONE, FALSE, FALSE), Msg("refund", "1001", FALSE, FALSE),
     Msg("refund", NONE, FALSE, FALSE), EmptyMsg}

\* No turn is in flight. Per worker: where its turn is, the conversation id,
\* the message and the state dict it holds. Per conversation id: the step
\* bodies run so far, what _STORE would hold had the turns of that id run
\* one after the other, whether two of its turns ever overlapped, and
\* whether the pipeline endpoint has handled it.
NoInflight ==
    [turn |-> [w \in Workers |-> [pc |-> "idle", conv |-> NONE, m |-> EmptyMsg,
                                  state |-> EmptyState]],
     bodies |-> [i \in OverlapIds |-> [s \in StepNames |-> 0]],
     alone |-> [i \in OverlapIds |-> Nothing],
     overlapped |-> [i \in OverlapIds |-> FALSE],
     pipeline |-> [i \in OverlapIds |-> FALSE]]

\* No invocation of the graph yet.
NoGraph ==
    [node |-> NONE, input |-> EmptyState, m |-> EmptyMsg, state |-> EmptyState,
     visited |-> << >>]

Init ==
    /\ store = [c \in ConvIds |-> EmptyState]
    /\ db = InitialDb
    /\ last = NoTurn
    /\ runs = [c \in ConvIds |-> NoRuns]
    /\ turns = 0
    /\ guarded = NoGuarded
    /\ escalation = NoEscalation
    /\ hstore = NoHistory
    /\ kv = NoStore
    /\ graph = NoGraph
    /\ inflight = NoInflight

InSeq(x, q) == \E i \in 1..Len(q) : q[i] = x

Counted(c, ran) ==
    [s \in StepNames |-> IF InSeq(s, ran) /\ runs[c][s] < MaxRuns THEN runs[c][s] + 1 ELSE runs[c][s]]

\* The effect on the variables of one turn t of operation op, message m.
Apply(limit, op, c, m, t) ==
    /\ turns < limit
    /\ turns' = turns + 1
    /\ store' = [store EXCEPT ![c] = t.st]
    /\ db' = t.dbv
    /\ runs' = [runs EXCEPT ![c] = Counted(c, t.ran)]
    /\ last' = [op |-> op, conv |-> c, m |-> m, resp |-> t.resp,
                ran |-> t.ran, refused |-> t.refused, calls |-> t.calls, saved |-> t.saved,
                hist |-> t.hist, route |-> t.route,
                user_orders |-> t.user_orders, matched |-> t.matched]
    /\ UNCHANGED <<guarded, escalation, hstore, kv, graph, inflight>>

\* Whether handle_message looks for the order among the user's orders; the
\* products a message mentions and a failure of the CRM are inputs only of
\* the turns that read them.
Resolving(stored, m, req_email) ==
    /\ m.intent \in ActionIntents
    /\ m.oid = NONE
    /\ (req_email # NONE \/ stored.user_email \notin {NONE, GUEST})

\* POST /v1/message with a message of Msgs.
HandleMessageOn(Msgs, Senders, limit) ==
    \E c \in ConvIds, m \in Msgs, req_email \in Senders \cup {NONE} :
    \E mentions \in IF Resolving(store[c], m, req_email) THEN SUBSET DbIds ELSE {{}},
       crm_fails \in IF m.affirm /\ store[c].awaiting_confirmation THEN BOOLEAN ELSE {FALSE} :
        Apply(limit, "handle_message", c, m,
              handle_message(store[c], m, req_email, mentions, crm_fails, db))

\* POST /v1/pipeline with a message of Msgs.
RunPipelineOn(Msgs, limit) ==
    \E c \in ConvIds, m \in Msgs, req_email \in Emails \cup {NONE} :
        Apply(limit, "run_pipeline", c, m, run_pipeline(store[c], m, req_email, db))

Returned200(o, dbv) ==
    [Turn(o.st, dbv, MessageResponse(o.st), o.ran, o.calls, TRUE, {}, "orchestrator")
        EXCEPT !.refused = o.refused]

\* run_orchestrator called on its own, as the orchestrator's unit of work.
RunOrchestratorOn(Msgs, limit) ==
    \E c \in ConvIds, m \in Msgs :
        Apply(limit, "run_orchestrator", c, m,
              Returned200(run_orchestrator(store[c], m, db), db))

\* clear_state(conversation_id): the conversation ends, a later turn makes a new one.
ClearStateOn(limit) ==
    \E c \in ConvIds :
        /\ store[c].exists
        /\ turns < limit
        /\ turns' = turns + 1
        /\ store' = [store EXCEPT ![c] = EmptyState]
        /\ runs' = [runs EXCEPT ![c] = NoRuns]
        /\ last' = [NoTurn EXCEPT !.op = "clear_state", !.conv = c]
        /\ UNCHANGED <<db, guarded, escalation, hstore, kv, graph, inflight>>

HandleMessage == HandleMessageOn(Messages, Emails, MaxTurns)
RunPipeline == RunPipelineOn(Messages, MaxTurns)
RunOrchestrator == RunOrchestratorOn(Messages, MaxTurns)
ClearState == ClearStateOn(MaxTurns)

Next == HandleMessage \/ RunPipeline \/ RunOrchestrator \/ ClearState

Spec == Init /\ [][Next]_vars

\* Longer runs over LongMessages.
HandleMessageLong == HandleMessageOn(LongMessages, Emails, MaxLongTurns)
RunPipelineLong == RunPipelineOn(LongMessages, MaxLongTurns)
RunOrchestratorLong == RunOrchestratorOn(LongMessages, MaxLongTurns)
ClearStateLong == ClearStateOn(MaxLongTurns)

NextLong == HandleMessageLong \/ RunPipelineLong \/ RunOrchestratorLong \/ ClearStateLong

SpecLong == Init /\ [][NextLong]_vars

\* A conversation that only run_orchestrator handles.
RunOrchestratorOnly == RunOrchestratorOn(Messages, MaxOrchestratorTurns)

NextOrchestrator == RunOrchestratorOnly

SpecOrchestrator == Init /\ [][NextOrchestrator]_vars

\* Turns of callers with several orders and with one, over the messages that
\* name no order, the ids given in answer and the affirmation.
OrderMessages ==
    {Msg(i, NONE, FALSE, FALSE) : i \in ActionIntents}
    \cup {Msg("general_question", o, FALSE, FALSE) : o \in {"7845", "2002"}}
    \cup {Yes}

HandleMessageOrders == HandleMessageOn(OrderMessages, AllEmails, MaxTurns)
ClearStateOrders == ClearStateOn(MaxTurns)

NextOrders == HandleMessageOrders \/ ClearStateOrders

SpecOrders == Init /\ [][NextOrders]_vars

\* ------------------------------------------------- the guard at unit level
\* The state dicts a guarded step is first handed, as the unit tests build them.
GuardInputs ==
    {[NewDict EXCEPT !.attempts = [a \in AgentNames |-> n],
                     !.current_state = cs,
                     !.status = "in_progress",
                     !.intent = i]
        : n \in 0..MaxCount, cs \in {"AWAITING_INTENT", "COMPLETED"}, i \in {NONE, "refund"}}

GuardMessages ==
    {EmptyMsg, Msg("general_question", NONE, FALSE, FALSE), Msg("refund", "1001", FALSE, FALSE),
     Msg("refund", "9999", FALSE, FALSE)}

InitGuard ==
    /\ store = [c \in ConvIds |-> EmptyState]
    /\ db = InitialDb
    /\ last = NoTurn
    /\ runs = [c \in ConvIds |-> NoRuns]
    /\ turns = 0
    /\ guarded \in {[NoGuarded EXCEPT !.out = g] : g \in GuardInputs}
    /\ escalation = NoEscalation
    /\ hstore = NoHistory
    /\ kv = NoStore
    /\ graph = NoGraph
    /\ inflight = NoInflight

Observed(name, e, g) ==
    [name |-> name, pre |-> guarded.out, e |-> e, out |-> g.st, raised |-> g.raised,
     ran |-> g.ran]

\* One call of agent_guard(name)(fn) on the state dict that the call before
\* returned; e is the text of the exception the test function raises.
GuardedCall ==
    \E name \in AgentNames, m \in GuardMessages, e \in {NONE, "Test error"} :
        /\ turns < MaxCalls
        /\ turns' = turns + 1
        /\ guarded' = Observed(name, e, agent_guard(name, guarded.out, Fx(m, db, e)))
        /\ UNCHANGED <<store, db, last, runs, escalation, hstore, kv, graph, inflight>>

NextGuard == GuardedCall

SpecGuard == InitGuard /\ [][NextGuard]_vars

\* ------------------------------------------- the escalation policy at unit level
\* The state dicts should_escalate is asked about: any counts of the steps,
\* with or without a phase and an error ({} when nothing is set).
EscalationInputs ==
    {[EmptyState EXCEPT !.attempts = [n \in AgentNames |-> IF n \in StepNames THEN a[n] ELSE 0],
                        !.current_state = cs,
                        !.last_error = le]
        : a \in [StepNames -> 0..MaxCount],
          cs \in {NONE, "COMPLETED", "HUMAN_HANDOFF"},
          le \in {NoError, Error("Some error", NONE)}}

InitEscalation ==
    /\ store = [c \in ConvIds |-> EmptyState]
    /\ db = InitialDb
    /\ last = NoTurn
    /\ runs = [c \in ConvIds |-> NoRuns]
    /\ turns = 0
    /\ guarded = NoGuarded
    /\ escalation \in {[NoEscalation EXCEPT !.state = s] : s \in EscalationInputs}
    /\ hstore = NoHistory
    /\ kv = NoStore
    /\ graph = NoGraph
    /\ inflight = NoInflight

\* One evaluation of should_escalate(state).
ShouldEscalate ==
    /\ ~escalation.done
    /\ escalation' = [escalation EXCEPT !.result = should_escalate(escalation.state),
                                         !.done = TRUE]
    /\ UNCHANGED <<store, db, last, runs, turns, guarded, hstore, kv, graph, inflight>>

NextEscalation == ShouldEscalate

SpecEscalation == InitEscalation /\ [][NextEscalation]_vars

\* ------------------------------------------------------- the history store
\* s[-k:] of Python: the last k items, the whole list when k is 0 or exceeds it.
SliceFromEnd(s, k) ==
    LET start == IF k = 0 \/ k > Len(s) THEN 1 ELSE Len(s) - k + 1
    IN [i \in 1..(Len(s) - start + 1) |-> s[start + i - 1]]

\* Faulty variant: the newest entries are dropped.
TrimmedNewest(s, max_turns) ==
    IF Len(s) > max_turns THEN [i \in 1..max_turns |-> s[i]] ELSE s

\* The trimming step of append_to_history.
Trimmed(s, max_turns) ==
    IF Len(s) > max_turns THEN SliceFromEnd(s, max_turns) ELSE s

\* append_to_history(conversation_id, role, content, max_turns) on the store
\* hs; appended and n are the record of what was appended.
append_to_history(hs, conversation_id, role, content) ==
    [hs EXCEPT !.history[conversation_id] =
                   Trimmed(Append(@, [role |-> role, content |-> content]), hs.max_turns),
               !.appended[conversation_id] = Append(@, [role |-> role, content |-> content]),
               !.n = content]

InitHistory ==
    /\ store = [c \in ConvIds |-> EmptyState]
    /\ db = InitialDb
    /\ last = NoTurn
    /\ runs = [c \in ConvIds |-> NoRuns]
    /\ turns = 0
    /\ guarded = NoGuarded
    /\ escalation = NoEscalation
    /\ hstore \in {[NoHistory EXCEPT !.max_turns = k] : k \in 1..MaxCap}
    /\ kv = NoStore
    /\ graph = NoGraph
    /\ inflight = NoInflight

\* One append; the content is the number of the append.
AppendToHistory ==
    \E h \in HistoryIds, role \in {"user", "assistant"} :
        /\ hstore.n < MaxAppends
        /\ hstore' = append_to_history(hstore, h, role, hstore.n + 1)
        /\ UNCHANGED <<store, db, last, runs, turns, guarded, escalation, kv, graph, inflight>>

NextHistory == AppendToHistory

SpecHistory == InitHistory /\ [][NextHistory]_vars

\* --------------------------------------------------- the state store at unit level
load_state(mem, conversation_id) == mem[conversation_id]

\* Faulty variant: the state is stored under every key.
save_state_everywhere(mem, conversation_id, state) == [i \in DOMAIN mem |-> Some(state)]

save_state(mem, conversation_id, state) == [mem EXCEPT ![conversation_id] = Some(state)]

\* Faulty variant: the record is left in place.
clear_state_keeps(mem, conversation_id) == mem

\* clear_state deletes the key when it is there and only logs otherwise.
clear_state(mem, conversation_id) ==
    IF mem[conversation_id].none THEN mem ELSE [mem EXCEPT ![conversation_id] = Nothing]

\* live records, per id, whether a save was made and no clear since.
LoadState ==
    \E i \in StoreIds :
        /\ kv' = [kv EXCEPT !.op = "load_state", !.id = i, !.arg = EmptyState,
                            !.result = load_state(kv.mem, i), !.raised = FALSE]
        /\ UNCHANGED <<store, db, last, runs, turns, guarded, escalation, hstore, graph, inflight>>

SaveState ==
    \E i \in StoreIds, s \in StoreValues :
        /\ kv' = [kv EXCEPT !.mem = save_state(kv.mem, i, s), !.live[i] = TRUE,
                            !.op = "save_state", !.id = i, !.arg = s,
                            !.result = Nothing, !.raised = FALSE]
        /\ UNCHANGED <<store, db, last, runs, turns, guarded, escalation, hstore, graph, inflight>>

ClearStateUnit ==
    \E i \in StoreIds :
        /\ kv' = [kv EXCEPT !.mem = clear_state(kv.mem, i), !.live[i] = FALSE,
                            !.op = "clear_state", !.id = i, !.arg = EmptyState,
                            !.result = Nothing, !.raised = FALSE]
        /\ UNCHANGED <<store, db, last, runs, turns, guarded, escalation, hstore, graph, inflight>>

NextStore == LoadState \/ SaveState \/ ClearStateUnit

SpecStore == Init /\ [][NextStore]_vars

\* ------------------------------------------- the resolution step at unit level
\* The state dicts the unit tests hand to the resolution step: an intent, an
\* order or none, a policy result, a confirmation_status or none.
ResolutionInputs ==
    {[NewDict EXCEPT !.intent = i,
                     !.current_state = "RESOLUTION",
                     !.attempts = [a \in AgentNames |-> n],
                     !.entities = [EmptyEntities EXCEPT
                                      !.order_id = od.oid,
                                      !.order_details = od,
                                      !.policy_result = PolicyResult(allowed, NONE, TRUE),
                                      !.confirmation_status = cs]]
        : i \in Intents \ {"policy_info", "list_orders", "request_cancellation"},
          od \in {NoDetails} \cup {fetch_order_details(InitialDb, o).order_details : o \in AskedIds},
          allowed \in BOOLEAN, cs \in {NONE, "confirmed"}, n \in {0, MAX_AGENT_CALLS}}

\* await resolution_agent(state) on one of these dicts.
ResolutionCall ==
    \E s \in ResolutionInputs :
        /\ LET g == agent_guard("resolution", s, Fx(EmptyMsg, db, NONE)) IN
           guarded' = [name |-> "resolution", pre |-> s, e |-> NONE, out |-> g.st,
                       raised |-> g.raised, ran |-> g.ran]
        /\ UNCHANGED <<store, db, last, runs, turns, escalation, hstore, kv, graph, inflight>>

NextResolution == ResolutionCall

SpecResolution == Init /\ [][NextResolution]_vars

\* ------------------------------------------------ turns that overlap in time
\* run_orchestrator up to its await: load_state, then a new dict, or the
\* loaded dict with the message, status and last_error set in place (the
\* loaded dict is the object that _STORE holds). Nested values are taken by
\* value.
BeginTurn ==
    \E w \in Workers, i \in OverlapIds, m \in OverlapMessages :
        LET state == load_state(kv.mem, i)
            entered == Entered(state.state)
        IN /\ turns < MaxTurns
           /\ turns' = turns + 1
           /\ inflight.turn[w].pc = "idle"
           /\ inflight' =
                 [inflight EXCEPT
                     !.turn[w] = [pc |-> "awaiting", conv |-> i, m |-> m, state |-> entered],
                     !.overlapped[i] =
                         @ \/ \E v \in Workers \ {w} :
                                  inflight.turn[v].pc = "awaiting" /\ inflight.turn[v].conv = i]
           /\ kv' = [kv EXCEPT !.mem = IF state.none THEN @ ELSE [@ EXCEPT ![i] = Some(entered)],
                               !.op = "load_state", !.id = i, !.arg = EmptyState,
                               !.result = state, !.raised = FALSE]
           /\ UNCHANGED <<store, db, last, runs, guarded, escalation, hstore, graph>>

\* run_orchestrator from its await on: the graph runs on the dict the worker
\* holds, the escalation check is made and the result is saved.
FinishTurn ==
    \E w \in Workers :
        LET t == inflight.turn[w]
            i == t.conv
            g == Escalated(build_graph(t.state, Fx(t.m, db, NONE)))
        IN /\ t.pc = "awaiting"
           /\ inflight' =
                 [inflight EXCEPT
                     !.turn[w] = [pc |-> "idle", conv |-> NONE, m |-> EmptyMsg,
                                  state |-> EmptyState],
                     !.bodies[i] = [s \in StepNames |-> IF InSeq(s, g.ran) THEN @[s] + 1 ELSE @[s]],
                     !.alone[i] = Some(run_orchestrator(@.state, t.m, db).st)]
           /\ kv' = [kv EXCEPT !.mem = save_state(@, i, g.st), !.live[i] = TRUE,
                               !.op = "save_state", !.id = i, !.arg = g.st,
                               !.result = Nothing, !.raised = FALSE]
           /\ UNCHANGED <<store, db, last, runs, turns, guarded, escalation, hstore, graph>>

\* POST /v1/pipeline for a conversation id, between the steps of the
\* run_orchestrator calls in flight.
PipelineTurn ==
    \E i \in OverlapIds, m \in OverlapMessages :
        LET t == run_pipeline(load_state(kv.mem, i).state, m, NONE, db)
        IN /\ turns < MaxTurns
           /\ turns' = turns + 1
           /\ inflight' =
                 [inflight EXCEPT
                     !.alone[i] = LET a == run_pipeline(@.state, m, NONE, db)
                                  IN IF a.saved THEN Some(a.st) ELSE @,
                     !.overlapped[i] =
                         @ \/ \E v \in Workers :
                                  inflight.turn[v].pc = "awaiting" /\ inflight.turn[v].conv = i,
                     !.pipeline[i] = TRUE]
           /\ kv' = IF t.saved
                    THEN [kv EXCEPT !.mem = save_state(@, i, t.st), !.live[i] = TRUE,
                                    !.op = "save_state", !.id = i, !.arg = t.st,
                                    !.result = Nothing, !.raised = FALSE]
                    ELSE [kv EXCEPT !.op = "load_state", !.id = i, !.arg = EmptyState,
                                    !.result = load_state(kv.mem, i), !.raised = FALSE]
           /\ db' = t.dbv
           /\ UNCHANGED <<store, last, runs, guarded, escalation, hstore, graph>>

NextOverlap == BeginTurn \/ FinishTurn \/ PipelineTurn

SpecOverlap == Init /\ [][NextOverlap]_vars

\* --------------------------------------------------- the graph node by node
\* The conditional edge that leaves the node agent_name, on the state the node returned.
Edge(agent_name, state) ==
    LET to == CASE agent_name = "triage" -> should_continue_to_database(state)
                [] agent_name = "database" -> should_continue_to_policy(state)
                [] agent_name = "policy" -> should_continue_to_resolution(state)
                [] OTHER -> should_end(state)
    IN IF to = "end" THEN "END" ELSE to

\* graph.ainvoke(state): the run is at the entry point.
Invoke ==
    \E s \in GuardInputs, m \in GuardMessages :
        /\ graph.node \in {NONE, "END"}
        /\ graph' = [node |-> "triage", input |-> s, m |-> m,
                     state |-> ConversationState(s), visited |-> << >>]
        /\ UNCHANGED <<store, db, last, runs, turns, guarded, escalation, hstore, kv, inflight>>

\* The node the run is at is executed and its conditional edge is followed.
Node(agent_name) ==
    /\ graph.node = agent_name
    /\ LET g == agent_guard(agent_name, graph.state, Fx(graph.m, db, NONE)) IN
       graph' = [graph EXCEPT !.state = g.st,
                              !.visited = Append(@, agent_name),
                              !.node = Edge(agent_name, g.st)]
    /\ UNCHANGED <<store, db, last, runs, turns, guarded, escalation, hstore, kv, inflight>>

\* Whichever of the four nodes the run is at.
NodeStep == \E agent_name \in StepNames : Node(agent_name)

NextGraph == Invoke \/ NodeStep

\* The awaited invocation runs its nodes to the end.
SpecGraph == Init /\ [][NextGraph]_vars /\ WF_vars(NodeStep)

\* =================================================================== claims
\* A turn: an operation other than clear_state has just been made on c.
TurnOn(c) == last'.conv = c /\ last'.op # "clear_state"

\* C1 (guard bound across turns): the turn that reaches a step whose body
\* has run MAX_AGENT_CALLS times since the conversation was made does not
\* run the body and ends with current_state HUMAN_HANDOFF, status handoff.
C1_GuardBoundAcrossTurns ==
    [][\A c \in ConvIds, s \in StepNames :
          (/\ TurnOn(c)
           /\ runs[c][s] >= MAX_AGENT_CALLS
           /\ (InSeq(s, last'.ran) \/ InSeq(s, last'.refused)))
          => /\ ~InSeq(s, last'.ran)
             /\ store'[c].current_state = "HUMAN_HANDOFF"
             /\ store'[c].status = "handoff"]_vars

\* C2 (absorbing handoff): once the stored current_state is HUMAN_HANDOFF, a
\* turn of handle_message or run_orchestrator leaves it HUMAN_HANDOFF.
C2_AbsorbingHandoff ==
    [][\A c \in ConvIds :
          (/\ TurnOn(c)
           /\ last'.op \in {"handle_message", "run_orchestrator"}
           /\ store[c].current_state = "HUMAN_HANDOFF")
          => store'[c].current_state = "HUMAN_HANDOFF"]_vars

ResolutionActions == {"run_agent_llm", "record_approved_request", "update_deal_stage"}

CancelOrder7845 == Msg("cancel", "7845", FALSE, FALSE)

\* C4 (end-to-end cancellation): "cancel order 7845" as turn 1, the order
\* being Processing, returns status awaiting_confirmation with a reply naming
\* 7845; "yes" as turn 2 returns status completed with the reply that the
\* cancellation was processed.
C4_EndToEndCancellation ==
    [][/\ (/\ turns = 0
           /\ last'.op = "handle_message"
           /\ last'.m = CancelOrder7845
           /\ db.status["7845"] = "Processing")
          => /\ last'.resp.status = "awaiting_confirmation"
             /\ last'.resp.reply.o = "7845"
       /\ (/\ turns = 1
           /\ last.op = "handle_message"
           /\ last.m = CancelOrder7845
           /\ last'.op = "handle_message"
           /\ last'.conv = last.conv
           /\ last'.m = Yes)
          => /\ last'.resp.http = 200
             /\ last'.resp.status = "completed"
             /\ last'.resp.reply = Reply("cancel_processed", "7845")]_vars

\* C5 (affirmative branch): when the stored state awaits the confirmation of
\* a destructive action on a known order and the message of handle_message
\* holds an affirmation token, the turn returns status completed for that
\* order, and the state stored afterwards has awaiting_confirmation false and
\* neither pending_intent nor confirmation_status in entities.
C5_AffirmativeBranch ==
    [][\A c \in ConvIds :
          (/\ TurnOn(c)
           /\ last'.op = "handle_message"
           /\ last'.m.affirm
           /\ store[c].awaiting_confirmation
           /\ store[c].pending_action \in DestructiveIntents
           /\ store[c].entities.order_id \in DbIds)
          => /\ last'.resp.http = 200
             /\ last'.resp.status = "completed"
             /\ last'.resp.order_id = store[c].entities.order_id
             /\ ~store'[c].awaiting_confirmation
             /\ store'[c].entities.pending_intent = NONE
             /\ store'[c].entities.confirmation_status = NONE]_vars

OrderLookups == {"fetch_order_details", "fetch_orders_by_email"}

\* C6 (confirmation decline): when the stored state has awaiting_confirmation
\* true and the message of handle_message holds no affirmation token, the turn
\* returns status completed with the decline message, makes no resolution
\* action and no order lookup, and the state stored afterwards has
\* awaiting_confirmation, pending_intent and confirmation_status cleared.
C6_ConfirmationDecline ==
    [][\A c \in ConvIds :
          (/\ TurnOn(c)
           /\ last'.op = "handle_message"
           /\ ~last'.m.affirm
           /\ store[c].awaiting_confirmation)
          => /\ last'.resp.status = "completed"
             /\ last'.resp.reply.k = "declined"
             /\ last'.calls \cap (ResolutionActions \cup OrderLookups) = {}
             /\ last'.ran = << >>
             /\ ~store'[c].awaiting_confirmation
             /\ store'[c].entities.pending_intent = NONE
             /\ store'[c].entities.confirmation_status = NONE]_vars

\* C7 (first encounter of a destructive intent): the turn that first sees a
\* destructive intent with a known order stores awaiting_confirmation true,
\* status awaiting_confirmation and entities with pending_intent, order_id,
\* the order_details snapshot and policy_result, and returns status
\* awaiting_confirmation with a prompt naming the order.
C7_FirstEncounter ==
    [][\A c \in ConvIds :
          (/\ TurnOn(c)
           /\ last'.op \in {"handle_message", "run_pipeline"}
           /\ last'.m.intent \in DestructiveIntents
           /\ last'.m.oid \in DbIds
           /\ ~store[c].awaiting_confirmation
           /\ ~store[c].awaiting_order_id)
          => /\ store'[c].awaiting_confirmation
             /\ store'[c].status = "awaiting_confirmation"
             /\ store'[c].entities.pending_intent = last'.m.intent
             /\ store'[c].entities.order_id = last'.m.oid
             /\ store'[c].entities.order_details.oid = last'.m.oid
             /\ store'[c].entities.policy_result.set
             /\ last'.resp.status = "awaiting_confirmation"
             /\ last'.resp.reply.o = last'.m.oid]_vars

\* C8 (attempts never decrease): between the first turn of a conversation and
\* clear_state, no turn lowers the stored attempts of a step.
C8_AttemptsMonotonic ==
    [][\A c \in ConvIds, s \in StepNames :
          TurnOn(c) => store'[c].attempts[s] >= store[c].attempts[s]]_vars

\* C9 (step guard at the limit): a guarded call on a state whose
\* attempts[name] is MAX_AGENT_CALLS or more does not run the wrapped
\* function, leaves attempts and agents_called as they were, and returns the
\* state with current_state HUMAN_HANDOFF, status handoff and the
\* "exceeded retry limit" error of that step, nothing else changed.
C9_GuardAtLimit ==
    (guarded.name # NONE /\ guarded.pre.attempts[guarded.name] >= MAX_AGENT_CALLS)
        => /\ guarded.ran = << >>
           /\ ~guarded.raised
           /\ guarded.out.attempts = guarded.pre.attempts
           /\ guarded.out.agents_called = guarded.pre.agents_called
           /\ guarded.out.current_state = "HUMAN_HANDOFF"
           /\ guarded.out.status = "handoff"
           /\ guarded.out.last_error = Error("exceeded retry limit", guarded.name)
           /\ guarded.out = [guarded.pre EXCEPT !.current_state = "HUMAN_HANDOFF",
                                                !.status = "handoff",
                                                !.last_error = guarded.out.last_error]

\* The third call of the unit test: two calls ran the function, this one is refused.
C9_Witness ==
    /\ guarded.name = "test_agent"
    /\ guarded.pre.agents_called = <<"test_agent", "test_agent">>
    /\ guarded.pre.attempts["test_agent"] = MAX_AGENT_CALLS
    /\ guarded.pre.entities.action = "executed"
    /\ guarded.out.status = "handoff"
    /\ guarded.out.last_error.k = "exceeded retry limit"

\* C10 (step guard absorbs exceptions): when the wrapped function raises on a
\* state with attempts[name] below MAX_AGENT_CALLS, the guarded call does not
\* raise: it returns the state with current_state HUMAN_HANDOFF, status
\* handoff, last_error "<name> error: <message>", and the attempt counted.
C10_GuardAbsorbsExceptions ==
    (/\ guarded.name = "test_agent"
     /\ guarded.e # NONE
     /\ guarded.pre.attempts[guarded.name] < MAX_AGENT_CALLS)
        => /\ ~guarded.raised
           /\ guarded.out.current_state = "HUMAN_HANDOFF"
           /\ guarded.out.status = "handoff"
           /\ guarded.out.last_error = [k |-> "error", who |-> guarded.name, msg |-> guarded.e]
           /\ guarded.out.attempts[guarded.name] = guarded.pre.attempts[guarded.name] + 1
           /\ guarded.out.agents_called = Append(guarded.pre.agents_called, guarded.name)

\* The unit test: the function raises "Test error" on its first call.
C10_Witness ==
    /\ guarded.name = "test_agent"
    /\ guarded.e = "Test error"
    /\ guarded.pre.attempts["test_agent"] = 0
    /\ guarded.out.attempts["test_agent"] = 1
    /\ guarded.out.last_error.msg = "Test error"
    /\ guarded.out.status = "handoff"

\* C11 (step guard below the limit): a guarded call on a state whose
\* attempts[name] is below MAX_AGENT_CALLS (0 when absent) runs the wrapped
\* function once, on a state in which attempts[name] is one more, the other
\* counts are as they were and name is appended once to agents_called.
C11_GuardBelowLimit ==
    (guarded.name # NONE /\ guarded.pre.attempts[guarded.name] < MAX_AGENT_CALLS)
        => /\ guarded.ran = <<guarded.name>>
           /\ guarded.out.attempts =
                  [guarded.pre.attempts EXCEPT ![guarded.name] = guarded.pre.attempts[guarded.name] + 1]
           /\ guarded.out.agents_called = guarded.pre.agents_called \o <<guarded.name>>
           /\ (guarded.name = "test_agent" /\ guarded.e = NONE)
                 => guarded.out.entities.action = "executed"

\* The unit test: the first call on a state without attempts runs the function.
C11_Witness ==
    /\ guarded.name = "test_agent"
    /\ guarded.e = NONE
    /\ guarded.pre.attempts["test_agent"] = 0
    /\ guarded.pre.agents_called = << >>
    /\ guarded.out.attempts["test_agent"] = 1
    /\ guarded.out.agents_called = <<"test_agent">>
    /\ guarded.out.entities.action = "executed"

\* The sum of the counts of the four steps.
TotalAttempts(state) ==
    state.attempts["triage"] + state.attempts["database"]
        + state.attempts["policy"] + state.attempts["resolution"]

\* C12 (escalation predicate): should_escalate(state) is true exactly when
\* current_state is HUMAN_HANDOFF, or last_error is set, or the counts sum to
\* more than 5; a sum of 5 alone does not escalate, a sum of 6 does.
C12_EscalationPredicate ==
    escalation.done =>
        LET state == escalation.state
            quiet == state.current_state # "HUMAN_HANDOFF" /\ state.last_error = NoError
        IN /\ escalation.result <=> (\/ state.current_state = "HUMAN_HANDOFF"
                                     \/ state.last_error # NoError
                                     \/ TotalAttempts(state) > 5)
           /\ (quiet /\ TotalAttempts(state) = 5) => ~escalation.result
           /\ (quiet /\ TotalAttempts(state) = 6) => escalation.result

\* A sum of 6 with no step over its own cap, no error and a finished phase escalates.
C12_Witness ==
    /\ escalation.done
    /\ escalation.result
    /\ escalation.state.current_state = "COMPLETED"
    /\ escalation.state.last_error = NoError
    /\ TotalAttempts(escalation.state) = 6
    /\ \A s \in StepNames : escalation.state.attempts[s] <= MAX_AGENT_CALLS

\* The state the graph returns in a run of run_orchestrator on message m.
GraphResult(c, m) == build_graph(Entered(store[c]), Fx(m, db, NONE)).st

\* What C13 asks of the state saved and returned for the graph result g.
EscalationApplied(g, saved, resp) ==
    /\ resp.status = saved.status
    /\ resp.current_state = saved.current_state
    /\ resp.reply = saved.reply
    /\ IF should_escalate(g)
       THEN /\ saved.current_state = "HUMAN_HANDOFF"
            /\ saved.status = "handoff"
            /\ saved.reply = (IF g.reply # NoReply THEN g.reply
                              ELSE Reply("escalation_apology", NONE))
            /\ [saved EXCEPT !.current_state = g.current_state, !.status = g.status,
                             !.reply = g.reply] = g
       ELSE saved = g

\* C13 (escalation at the end of the turn): when should_escalate holds of the
\* graph result, run_orchestrator saves and returns it with current_state
\* HUMAN_HANDOFF and status handoff, a non-empty reply kept and the default
\* apology put in place of an empty one; otherwise it saves the graph result
\* unchanged.
C13_EscalationApplied ==
    [][\A c \in ConvIds :
          (last'.op = "run_orchestrator" /\ last'.conv = c)
          => EscalationApplied(GraphResult(c, last'.m), store'[c], last'.resp)]_vars

\* An empty message: triage sets the error and no reply, the apology is put in.
C13_Witness ==
    /\ last.op = "run_orchestrator"
    /\ last.m = EmptyMsg
    /\ last.ran = <<"triage">>
    /\ store[last.conv].last_error.k = "Empty user message"
    /\ store[last.conv].status = "handoff"
    /\ store[last.conv].current_state = "HUMAN_HANDOFF"
    /\ store[last.conv].reply = Reply("escalation_apology", NONE)

\* C14 (pause flags are mutually exclusive): no stored state has both
\* awaiting_confirmation and awaiting_order_id true.
C14_PauseFlagsExclusive ==
    \A c \in ConvIds : ~(store[c].awaiting_confirmation /\ store[c].awaiting_order_id)

\* The order id given in answer to the order-id prompt of a cancellation: the
\* order-id pause gives way to the confirmation pause.
C14_Witness ==
    /\ last.op = "handle_message"
    /\ last.route = "confirm_cancel"
    /\ last.m = Msg("general_question", "7845", FALSE, FALSE)
    /\ store[last.conv].awaiting_confirmation
    /\ ~store[last.conv].awaiting_order_id

\* C15 (every turn persists and records): whichever route handle_message
\* takes, before it returns it has saved the conversation state and appended
\* the user's message and the assistant's reply to the history.
C15_PersistsAndRecords ==
    [][\A c \in ConvIds :
          (TurnOn(c) /\ last'.op = "handle_message" /\ last'.resp.http = 200)
          => /\ last'.saved
             /\ last'.hist = {"user", "assistant"}]_vars

Hello == Msg("general_question", NONE, FALSE, FALSE)

\* C16 (greeting example): "hello" as the first message of handle_message
\* returns status completed with agents_called empty, and the turn runs no
\* pipeline step and makes no order lookup.
C16_GreetingExample ==
    [][\A c \in ConvIds :
          (/\ TurnOn(c)
           /\ ~store[c].exists
           /\ last'.op = "handle_message"
           /\ last'.m = Hello)
          => /\ last'.resp.http = 200
             /\ last'.resp.status = "completed"
             /\ last'.resp.agents_called = << >>
             /\ last'.ran = << >>
             /\ last'.calls \cap OrderLookups = {}]_vars

StatusVocabulary == {"in_progress", "completed", "handoff", "awaiting_input", "awaiting_confirmation"}

\* C17 (response status vocabulary): every response of handle_message and
\* every state returned by run_orchestrator has a status among in_progress,
\* completed, handoff, awaiting_input and awaiting_confirmation.
C17_StatusVocabulary ==
    [][\A c \in ConvIds :
          (/\ TurnOn(c)
           /\ last'.op \in {"handle_message", "run_orchestrator"}
           /\ last'.resp.http = 200)
          => /\ last'.resp.status \in StatusVocabulary
             /\ last'.op = "run_orchestrator" => store'[c].status \in StatusVocabulary]_vars

\* A turn of handle_message on c with an action intent and no order id, by a
\* caller whose orders were fetched, with no pause pending.
UnnamedOrderTurn(c) ==
    /\ TurnOn(c)
    /\ last'.op = "handle_message"
    /\ last'.m.intent \in ActionIntents
    /\ last'.m.oid = NONE
    /\ "fetch_orders_by_email" \in last'.calls
    /\ ~store[c].awaiting_confirmation
    /\ ~store[c].awaiting_order_id

\* C18 (ambiguous order, several matches): for a known caller, an action
\* intent without order id whose message matches two or more of the caller's
\* orders gets a reply listing exactly the matching orders, status
\* awaiting_input and a stored awaiting_order_id; when the caller has one
\* order on file and nothing matches, that order is adopted without asking
\* and the request is processed for it.
C18_SeveralMatches ==
    [][\A c \in ConvIds :
          UnnamedOrderTurn(c)
          => /\ Cardinality(last'.matched) >= 2
                  => /\ last'.resp.reply.k = "choose_order"
                     /\ last'.resp.orders = last'.matched
                     /\ last'.resp.status = "awaiting_input"
                     /\ store'[c].awaiting_order_id
             /\ (Cardinality(last'.user_orders) = 1 /\ last'.matched = {})
                  => /\ last'.resp.orders = {}
                     /\ last'.resp.reply.k \notin {"choose_order", "ask_order_id"}
                     /\ {last'.resp.order_id} = last'.user_orders
                     /\ ~store'[c].awaiting_order_id]_vars

\* Two of the three orders of u1 match: the reply lists the two.
C18_Witness ==
    /\ last.op = "handle_message"
    /\ last.route = "disambiguation"
    /\ Cardinality(last.user_orders) = 3
    /\ last.matched = {"7845", "1002"}
    /\ last.resp.orders = {"7845", "1002"}
    /\ last.resp.status = "awaiting_input"
    /\ store[last.conv].awaiting_order_id

\* C19 (ambiguous order, no match): for a known caller with two or more
\* orders on file, an action intent without order id whose message matches
\* none of them is answered with the ordinary order-id prompt: no list of
\* orders, no order guessed.
C19_NoMatch ==
    [][\A c \in ConvIds :
          (/\ UnnamedOrderTurn(c)
           /\ Cardinality(last'.user_orders) >= 2
           /\ last'.matched = {})
          => /\ last'.resp.orders = {}
             /\ last'.resp.order_id = NONE
             /\ last'.resp.reply.k = "ask_order_id"
             /\ last'.resp.status = "awaiting_input"]_vars

\* The last k entries of s, in their order.
LastEntries(s, k) == SubSeq(s, Len(s) - k + 1, Len(s))

HistoryCapped ==
    \A h \in HistoryIds :
        LET n == Len(hstore.appended[h])
            kept == IF n < hstore.max_turns THEN n ELSE hstore.max_turns
        IN /\ Len(hstore.history[h]) <= hstore.max_turns
           /\ hstore.history[h] = LastEntries(hstore.appended[h], kept)

\* C20 (history cap): after any appends with one max_turns >= 1 the stored
\* history of a conversation has at most max_turns entries and is the last
\* min(n, max_turns) of the n entries appended to it, in their order; an
\* append to one conversation id leaves the history of the others as it was.
C20_HistoryCap ==
    /\ []HistoryCapped
    /\ [][\A h \in HistoryIds :
              hstore'.appended[h] = hstore.appended[h]
                  => hstore'.history[h] = hstore.history[h]]_vars

\* Five appends to h1 with cap 3 leave entries 3, 4, 5; h2 has none.
C20_Witness ==
    /\ hstore.max_turns = 3
    /\ Len(hstore.appended["h1"]) = 5
    /\ Len(hstore.history["h1"]) = 3
    /\ hstore.history["h1"][1].content = 3
    /\ hstore.history["h1"][3].content = 5
    /\ hstore.history["h2"] = << >>

\* What load_state returns for every id other than the one of the call is as before.
OthersAsBefore ==
    \A j \in StoreIds \ {kv'.id} : load_state(kv'.mem, j) = load_state(kv.mem, j)

\* C21 (state store laws): load_state of an id never saved, or cleared since
\* its last save, returns None; load_state right after save_state(id, s)
\* returns s, whatever was saved before; clear_state removes the record and
\* does not raise for an unknown id; no operation on one id changes what
\* load_state returns for another.
C21_StoreLaws ==
    /\ [](\A i \in StoreIds : ~kv.live[i] => load_state(kv.mem, i) = Nothing)
    /\ [][/\ OthersAsBefore
          /\ ~kv'.raised
          /\ kv'.op = "save_state" => load_state(kv'.mem, kv'.id) = Some(kv'.arg)
          /\ kv'.op = "clear_state" => load_state(kv'.mem, kv'.id) = Nothing
          /\ kv'.op = "load_state" => /\ kv'.mem = kv.mem
                                      /\ kv'.result = load_state(kv.mem, kv'.id)]_vars

\* conv-1 was saved twice and then cleared while conv-2 keeps its record.
C21_Witness ==
    /\ kv.op = "clear_state"
    /\ kv.id = "conv-1"
    /\ load_state(kv.mem, "conv-1") = Nothing
    /\ load_state(kv.mem, "conv-2") = Some([NewDict EXCEPT !.intent = "refund"])

\* C22 (unexpected top-level failure): when something raises inside
\* handle_message outside the guarded steps, so that the outermost except
\* clause answers, the caller gets status handoff with a generic apology and
\* nothing of the exception's text.
C22_TopLevelFailure ==
    (last.op = "handle_message" /\ last.resp.http # 200)
    => /\ last.resp.status = "handoff"
       /\ last.resp.reply # NoReply
       /\ last.resp.detail = NONE

\* The steps a run_orchestrator turn visited: those whose body ran and those
\* the guard refused, in the order of the graph.
Visited == last.ran \o last.refused

\* C23 (defensive routing): a run_orchestrator turn that stops before the
\* resolution step, or leaves the resolution step in a phase other than
\* COMPLETED, ends as a handoff: the saved state has current_state
\* HUMAN_HANDOFF and status handoff.
C23_DefensiveRouting ==
    (/\ last.op = "run_orchestrator"
     /\ \/ Len(Visited) < Len(Steps)
        \/ store[last.conv].current_state # "COMPLETED")
    => /\ store[last.conv].current_state = "HUMAN_HANDOFF"
       /\ store[last.conv].status = "handoff"

\* The phase a step must find to be run: the one the step before it is expected to leave.
ExpectedPhase(agent_name) ==
    CASE agent_name = "database" -> "DATA_FETCH"
      [] agent_name = "policy" -> "POLICY_CHECK"
      [] agent_name = "resolution" -> "RESOLUTION"
      [] OTHER -> NONE

PostPhase(agent_name) ==
    CASE agent_name = "triage" -> "DATA_FETCH"
      [] agent_name = "database" -> "POLICY_CHECK"
      [] agent_name = "policy" -> "RESOLUTION"
      [] OTHER -> "COMPLETED"

\* C25 (step post-phases): whatever state a guarded step is called on,
\* triage leaves DATA_FETCH, database POLICY_CHECK, policy RESOLUTION and
\* resolution COMPLETED, or else the step leaves HUMAN_HANDOFF.
C25_StepPostPhases ==
    guarded.name \in StepNames
    => guarded.out.current_state \in {PostPhase(guarded.name), "HUMAN_HANDOFF"}

\* The state of conversation c is paused, for a confirmation or for an order id.
Paused(c) == store[c].awaiting_confirmation \/ store[c].awaiting_order_id

\* C26 (informational short-circuit): a handle_message turn whose message is
\* classified policy_info answers with status completed, runs and refuses no
\* step, and leaves agents_called, attempts and a pending confirmation or
\* order-id pause (flags, pending action, intent, entities) as they were.
C26_PolicyInfoShortCircuit ==
    [][\A c \in ConvIds :
          (TurnOn(c) /\ last'.op = "handle_message" /\ last'.m.intent = "policy_info")
          => /\ last'.resp.status = "completed"
             /\ last'.resp.intent = "policy_info"
             /\ last'.ran = << >>
             /\ last'.refused = << >>
             /\ store'[c].agents_called = store[c].agents_called
             /\ store'[c].attempts = store[c].attempts
             /\ store'[c].awaiting_confirmation = store[c].awaiting_confirmation
             /\ store'[c].awaiting_order_id = store[c].awaiting_order_id
             /\ store'[c].pending_action = store[c].pending_action
             /\ store'[c].intent = store[c].intent
             /\ store'[c].entities = store[c].entities]_vars

\* A policy question was answered while a confirmation was pending.
C26_Witness ==
    /\ last.op = "handle_message"
    /\ last.m.intent = "policy_info"
    /\ last.resp.status = "completed"
    /\ store[last.conv].awaiting_confirmation
    /\ store[last.conv].pending_action \in DestructiveIntents

\* The turn is one of the two endpoints that pause for an order id.
PausingEndpoint == last'.op \in {"handle_message", "run_pipeline"}

\* Neither the message nor the product names it mentions give one order.
NoOrderId == last'.m.oid = NONE /\ Cardinality(last'.matched) # 1

\* The intents that handle_message answers in routes placed before the continuations.
AnsweredFirst == {"policy_info", "list_orders", "request_cancellation"}

\* Conversation c waits for the order id of an action intent and has none stored.
PausedForOrderId(c) ==
    /\ store[c].awaiting_order_id
    /\ store[c].intent \in ActionIntents
    /\ store[c].entities.order_id = NONE

\* The three parts of the order-id pause for the messages classified outside exempt.
OrderIdPause(exempt) ==
    \A c \in ConvIds :
        /\ (/\ TurnOn(c) /\ PausingEndpoint
            /\ ~Paused(c)
            /\ store[c].entities.order_id = NONE
            /\ last'.m.intent \in ActionIntents
            /\ NoOrderId)
           => /\ last'.resp.status = "awaiting_input"
              /\ store'[c].awaiting_order_id
              /\ store'[c].intent = last'.m.intent
        /\ (/\ TurnOn(c) /\ PausingEndpoint
            /\ PausedForOrderId(c)
            /\ last'.m.intent \notin exempt
            /\ NoOrderId)
           => /\ last'.resp.status = "awaiting_input"
              /\ store'[c].awaiting_order_id
        /\ (/\ TurnOn(c) /\ PausingEndpoint
            /\ PausedForOrderId(c)
            /\ last'.m.intent \notin exempt
            /\ ~NoOrderId)
           => /\ ~store'[c].awaiting_order_id
              /\ last'.resp.http = 200
              /\ last'.resp.intent = store[c].intent
              /\ last'.resp.order_id \in {last'.m.oid} \cup last'.matched

C28_UnknownIntentDenied ==
    [][\A c \in ConvIds :
          (/\ TurnOn(c)
           /\ last'.op = "run_orchestrator"
           /\ InSeq("triage", last'.ran)
           /\ last'.m.intent = "unknown")
          => /\ store'[c].current_state = "HUMAN_HANDOFF"
             /\ store'[c].status = "handoff"
             /\ last'.resp.status = "handoff"
             /\ last'.resp.reply # NoReply]_vars

\* A policy check was made and did not allow the action.
Denial(policy_result) == policy_result.set /\ policy_result.checked /\ ~policy_result.allowed

C30_StoredSnapshot ==
    [][\A c \in ConvIds :
          (/\ TurnOn(c)
           /\ last'.op = "handle_message"
           /\ store[c].awaiting_confirmation
           /\ store[c].pending_action \in DestructiveIntents
           /\ last'.m = Yes)
          => /\ "fetch_order_details" \notin last'.calls
             /\ last'.ran = << >>
             /\ last'.route = "confirm_llm"]_vars

\* The resolution step body ran on a refund that the policy allows, for an order.
ApprovedRefund ==
    /\ guarded.name = "resolution"
    /\ guarded.ran = <<"resolution">>
    /\ guarded.pre.intent = "refund"
    /\ guarded.pre.entities.policy_result.allowed
    /\ guarded.pre.entities.order_details.oid # NONE

\* The reply is the refund-approved one for the order of the state.
ApprovedReply ==
    /\ guarded.out.reply = Reply("refund_approved", guarded.pre.entities.order_details.oid)
    /\ guarded.out.status = "completed"

ResolutionRan == guarded.name = "resolution" /\ guarded.ran = <<"resolution">>

Quiet(i) == \A w \in Workers : ~(inflight.turn[w].pc = "awaiting" /\ inflight.turn[w].conv = i)

\* C33 (no lost updates within one conversation): once the run_orchestrator
\* turns of a conversation id have finished, overlapping or not, the stored
\* attempts of each step are the number of times its body ran for that id,
\* and no body ran more than MAX_AGENT_CALLS times.
C33_NoLostUpdates ==
    \A i \in OverlapIds :
        (Quiet(i) /\ ~inflight.pipeline[i] /\ ~load_state(kv.mem, i).none)
        => \A s \in StepNames :
              /\ load_state(kv.mem, i).state.attempts[s] = inflight.bodies[i][s]
              /\ inflight.bodies[i][s] <= MAX_AGENT_CALLS

Tracked(state) == Len(state.agents_called) = TotalAttempts(state)

\* C35 (attempts stay within the limit): in every stored state each of the
\* four steps has at most MAX_AGENT_CALLS attempts and the attempts sum to at
\* most 8; a state that run_orchestrator creates, and one it updates that
\* had one entry of agents_called for each attempt, has one entry of
\* agents_called for each attempt.
C35_AttemptsBounded ==
    [][\A c \in ConvIds :
          /\ \A s \in StepNames : store'[c].attempts[s] <= MAX_AGENT_CALLS
          /\ TotalAttempts(store'[c]) <= 8
          /\ (last'.op = "run_orchestrator" /\ last'.conv = c
                  /\ (~store[c].exists \/ Tracked(store[c])))
             => Tracked(store'[c])]_vars

\* A run_orchestrator turn on a state that run_orchestrator made: triage is
\* at the limit and is refused.
C35_Witness ==
    /\ last.op = "run_orchestrator"
    /\ InSeq("triage", last.refused)
    /\ store["c1"].attempts["triage"] = MAX_AGENT_CALLS
    /\ TotalAttempts(store["c1"]) > MAX_AGENT_CALLS
    /\ Tracked(store["c1"])

\* The four steps all ran in the turn just made.
AllFourRan == \A s \in StepNames : InSeq(s, last.ran)

C36_ThirdTurn ==
    /\ turns = 3 /\ last.ran = << >> /\ last.refused = <<"triage">>
    /\ store["c1"].current_state = "HUMAN_HANDOFF"

GateRoutes == {"confirm_llm", "confirm_cancel", "confirm_fallback", "confirm_invalid_input", "decline"}

\* The pending confirmation of a stored state: flag, action, order id, snapshot.
Pending(state) ==
    <<state.awaiting_confirmation, state.pending_action, state.entities.order_id,
      state.entities.order_details, state.entities.policy_result>>

C40_ChangesOnlyAtSave ==
    [][\A i \in OverlapIds :
          load_state(kv'.mem, i) # load_state(kv.mem, i)
          => (kv'.op = "save_state" /\ kv'.id = i)]_vars

====
